---------------------------- MODULE Spec2Model ----------------------------
(***************************************************************************)
(* A model of difflib-rs (src/src/lib.rs): the SequenceMatcher that builds *)
(* the position index of B, finds longest matches, collects matching       *)
(* blocks, assembles opcodes and groups them into hunks, and the           *)
(* unified_diff function on top of it.                                     *)
(*                                                                         *)
(* Vec indices are 0-based in the program and are kept 0-based here; a     *)
(* TLA+ sequence s is read at program index i as s[i + 1] (operator At).   *)
(***************************************************************************)
EXTENDS Naturals, Sequences, FiniteSets, TLC

VARIABLES
    a,          \* the first input sequence of lines (A)
    b,          \* the second input sequence of lines (B)
    matcher,    \* the SequenceMatcher built from (a, b), or NoMatcher
    pc,         \* "new" (inputs chosen), "ready" (matcher built), "returned"
    ret,        \* the last call and the value it returned
    stack,      \* work list of get_matching_blocks, stepwise (SpecWork)
    matches     \* blocks recorded so far by the stepwise loop (SpecWork)

vars == <<a, b, matcher, pc, ret, stack, matches>>

---------------------------------------------------------------------------
(* Bounds of the model and constants of the program.                       *)

\* longest input sequence enumerated exhaustively
MaxLen == 4
\* longest changed core of a long (padded) input
MaxCore == 1
\* longest input sequence whose every window is searched (SpecFLM)
MaxWinLen == 3
\* longest input sequence of the stepwise get_matching_blocks (SpecWork)
MaxWorkLen == 6
\* largest context parameter n passed to get_grouped_opcodes / unified_diff
MaxCtx == 2

\* chain_b applies the popularity heuristic when b has at least 200 lines
PopularMinLen == 200
\* ... and prunes a line that occurs more than len / 100 + 1 times
PopularDivisor == 100

\* The lines (elements) the inputs are made of: opaque, compared by equality.
Lines == {"x", "mid", "MID"}

\* The line long inputs are padded with.
PadLine == "x"

---------------------------------------------------------------------------
(* Helpers over sequences and maps.                                        *)

At(s, i) == s[i + 1]

Range(s) == {s[p] : p \in 1..Len(s)}

Last(s) == s[Len(s)]

\* HashMap::get(..).unwrap_or(default)
GetOr(m, key, default) == IF key \in DOMAIN m THEN m[key] ELSE default

\* All sequences over S of length at most n.
SeqsUpTo(S, n) == UNION {[1..k -> S] : k \in 0..n}

Pad(k) == [p \in 1..k |-> PadLine]

---------------------------------------------------------------------------
(* SequenceMatcher::chain_b: the position index of b, popular lines pruned *)

\* The ascending positions of elt in bb (the Vec<usize> of one b2j entry).
Positions(bb, elt) ==
    SelectSeq([p \in 1..Len(bb) |-> p - 1], LAMBDA j : At(bb, j) = elt)

chain_b(bb) ==
    LET full == [elt \in Range(bb) |-> Positions(bb, elt)]
        n == Len(bb)
    IN  IF n >= PopularMinLen
        THEN LET ntest == (n \div PopularDivisor) + 1
                 popular_elements == {elt \in DOMAIN full : Len(full[elt]) > ntest}
             IN  [elt \in (DOMAIN full) \ popular_elements |-> full[elt]]
        ELSE full

\* set_seq2 on a matcher whose b is old_b and whose index is old_b2j.
set_seq2(old_b, old_b2j, new_b) ==
    IF old_b = new_b
    THEN [b |-> old_b, b2j |-> old_b2j]
    ELSE [b |-> new_b, b2j |-> chain_b(new_b)]

\* SequenceMatcher::new(a, b): b starts empty, b2j empty, then set_seq2(b).
SequenceMatcher_new(aa, bb) ==
    LET s == set_seq2(<<>>, <<>>, bb)
    IN  [a |-> aa, b |-> s.b, b2j |-> s.b2j]

NoMatcher == [a |-> <<>>, b |-> <<>>, b2j |-> <<>>]

---------------------------------------------------------------------------
(* SequenceMatcher::find_longest_match                                     *)

\* Faulty variant: `>=` for `>`, so that a later run of the same length
\* replaces the earlier one.
Improves_OnTie(newk, best_size) == newk >= best_size

\* The inner loop `for &j in positions` of row i, from position index p on.
\* st carries best_i, best_j, best_size, j2len (previous row), newj2len.
\* `if k + 1 > best_size`: a tie does not replace the best match.
Improves(newk, best_size) == newk > best_size

RECURSIVE ScanPositions(_, _, _, _, _, _)
ScanPositions(st, positions, p, i, blo, bhi) ==
    IF p > Len(positions) THEN st
    ELSE LET j == positions[p] IN
         IF j < blo \/ j >= bhi
         THEN ScanPositions(st, positions, p + 1, i, blo, bhi)
         ELSE LET k   == IF j = 0 THEN 0 ELSE GetOr(st.j2len, j - 1, 0)
                  st1 == [st EXCEPT !.newj2len = (j :> (k + 1)) @@ @]
                  st2 == IF Improves(k + 1, st.best_size)
                         THEN [st1 EXCEPT !.best_i = i - k,
                                          !.best_j = j - k,
                                          !.best_size = k + 1]
                         ELSE st1
              IN  ScanPositions(st2, positions, p + 1, i, blo, bhi)

\* `let mut newj2len = HashMap::new()` and `j2len = newj2len`.
StartRow(st) == [st EXCEPT !.newj2len = <<>>]

EndRow(st) == [st EXCEPT !.j2len = st.newj2len]

\* One iteration of `for i in alo..ahi`.
ScanRow(self, st, i, blo, bhi) ==
    EndRow(IF At(self.a, i) \in DOMAIN self.b2j
           THEN ScanPositions(StartRow(st), self.b2j[At(self.a, i)], 1, i, blo, bhi)
           ELSE StartRow(st))

\* `for i in lo..hi`: the rows in ascending order.  The range is split in
\* halves only to keep the depth of evaluation logarithmic; the test on
\* `first` is TRUE of every scan state and only makes the rows lo..mid be
\* evaluated before the rows mid..hi are entered.
RECURSIVE ScanRows(_, _, _, _, _, _)
ScanRows(self, st, lo, hi, blo, bhi) ==
    IF lo >= hi THEN st
    ELSE IF hi = lo + 1 THEN ScanRow(self, st, lo, blo, bhi)
    ELSE LET mid   == (lo + hi) \div 2
             first == ScanRows(self, st, lo, mid, blo, bhi)
         IN  IF first.best_size >= 0
             THEN ScanRows(self, first, mid, hi, blo, bhi)
             ELSE first

\* Loop conditions and bodies of the two `while` loops of the extension.
CanExtendBack(self, st, alo, blo) ==
    /\ st.best_i > alo
    /\ st.best_j > blo
    /\ At(self.a, st.best_i - 1) = At(self.b, st.best_j - 1)

ExtendBackStep(st) ==
    [st EXCEPT !.best_i = @ - 1, !.best_j = @ - 1, !.best_size = @ + 1]

\* Faulty variant: the forward extension without its comparison of the two
\* lines, stopped by the window alone.
CanExtendFwd_NoCompare(self, st, ahi, bhi) ==
    /\ st.best_i + st.best_size < ahi
    /\ st.best_j + st.best_size < bhi

CanExtendFwd(self, st, ahi, bhi) ==
    /\ st.best_i + st.best_size < ahi
    /\ st.best_j + st.best_size < bhi
    /\ At(self.a, st.best_i + st.best_size) = At(self.b, st.best_j + st.best_size)

ExtendFwdStep(st) == [st EXCEPT !.best_size = @ + 1]

\* `while cond { body }` run for at most fuel iterations (callers pass the
\* height of the window, which no run of the loop exceeds); split in halves
\* to keep the depth of evaluation logarithmic.
RECURSIVE ExtendBack(_, _, _, _, _)
ExtendBack(self, st, alo, blo, fuel) ==
    IF fuel = 0 \/ ~CanExtendBack(self, st, alo, blo) THEN st
    ELSE IF fuel = 1 THEN ExtendBackStep(st)
    ELSE LET half == fuel \div 2
         IN  ExtendBack(self, ExtendBack(self, st, alo, blo, half),
                        alo, blo, fuel - half)

RECURSIVE ExtendFwd(_, _, _, _, _)
ExtendFwd(self, st, ahi, bhi, fuel) ==
    IF fuel = 0 \/ ~CanExtendFwd(self, st, ahi, bhi) THEN st
    ELSE IF fuel = 1 THEN ExtendFwdStep(st)
    ELSE LET half == fuel \div 2
         IN  ExtendFwd(self, ExtendFwd(self, st, ahi, bhi, half),
                       ahi, bhi, fuel - half)

\* The state the search starts in, and the triple it returns.
StartSearch(alo, blo) ==
    [best_i |-> alo, best_j |-> blo, best_size |-> 0, j2len |-> <<>>, newj2len |-> <<>>]

BestMatch(st) == <<st.best_i, st.best_j, st.best_size>>

\* Faulty variant: the search without its two extension loops, which are
\* all that finds a run of lines pruned from the index.
find_longest_match_NoExtension(self, alo, ahi, blo, bhi) ==
    BestMatch(ScanRows(self, StartSearch(alo, blo), alo, ahi, blo, bhi))

\* The scan of the rows, then the extension backwards, then forwards.
find_longest_match(self, alo, ahi, blo, bhi) ==
    BestMatch(
        ExtendFwd(self,
            ExtendBack(self,
                ScanRows(self, StartSearch(alo, blo), alo, ahi, blo, bhi),
                alo, blo, ahi - alo),
            ahi, bhi, ahi - alo))

---------------------------------------------------------------------------
(* SequenceMatcher::get_matching_blocks                                    *)

\* The rectangles pushed for the match (i, j, k) found in rect.
LeftRect(rect, i, j) ==
    IF rect[1] < i /\ rect[3] < j THEN <<(<<rect[1], i, rect[3], j>>)>> ELSE <<>>

RightRect(rect, i, j, k) ==
    IF i + k < rect[2] /\ j + k < rect[4]
    THEN <<(<<i + k, rect[2], j + k, rect[4]>>)>> ELSE <<>>

\* The body of the loop once find_longest_match has returned m for rect:
\* the work list (rest is what was left of it) and the matches after it.
RecordMatch(rect, m, rest, found) ==
    IF m[3] > 0
    THEN [stack   |-> rest \o LeftRect(rect, m[1], m[2]) \o RightRect(rect, m[1], m[2], m[3]),
          matches |-> Append(found, m)]
    ELSE [stack |-> rest, matches |-> found]

\* One iteration of `while let Some(rect) = stack.pop()` on the rectangle
\* rect = (alo, ahi, blo, bhi).
ProcessRect(self, rect, rest, found) ==
    RecordMatch(rect, find_longest_match(self, rect[1], rect[2], rect[3], rect[4]),
                rest, found)

\* The loop as coded: Vec::pop takes the last rectangle pushed.
RECURSIVE MatchLoop(_, _)
MatchLoop(self, work) ==
    IF work.stack = <<>> THEN work.matches
    ELSE MatchLoop(self, ProcessRect(self, Last(work.stack),
                                     SubSeq(work.stack, 1, Len(work.stack) - 1),
                                     work.matches))

\* Faulty variant: a comparison under which no block precedes another, so
\* that the sort leaves the blocks in the order they were found in.
BlockLess_Never(x, y) == FALSE

\* The order of sort_unstable_by: by (i, j).
BlockLess(x, y) == x[1] < y[1] \/ (x[1] = y[1] /\ x[2] < y[2])

RECURSIVE InsertSorted(_, _)
InsertSorted(sorted, x) ==
    IF sorted = <<>> THEN <<x>>
    ELSE IF BlockLess(x, Last(sorted))
         THEN Append(InsertSorted(SubSeq(sorted, 1, Len(sorted) - 1), x), Last(sorted))
         ELSE Append(sorted, x)

\* Faulty variant: the sort left out.
SortBlocks_Unsorted(ms) == ms

RECURSIVE SortBlocks(_)
SortBlocks(ms) ==
    IF ms = <<>> THEN <<>>
    ELSE InsertSorted(SortBlocks(SubSeq(ms, 1, Len(ms) - 1)), Last(ms))

\* `for (i, j, k) in matches`: fold a block into its predecessor when it
\* continues it, else push it.
RECURSIVE Collapse(_, _, _)
Collapse(ms, p, collapsed) ==
    IF p > Len(ms) THEN collapsed
    ELSE LET x == ms[p] IN
         IF collapsed # <<>>
            /\ Last(collapsed)[1] + Last(collapsed)[3] = x[1]
            /\ Last(collapsed)[2] + Last(collapsed)[3] = x[2]
         THEN Collapse(ms, p + 1,
                       [collapsed EXCEPT ![Len(collapsed)][3] = @ + x[3]])
         ELSE Collapse(ms, p + 1, Append(collapsed, x))

\* Faulty variant: the sentinel left out.
FinishBlocks_NoSentinel(self, found) == Collapse(SortBlocks(found), 1, <<>>)

\* Sort, collapse, and push the sentinel (len(a), len(b), 0).
FinishBlocks(self, found) ==
    Append(Collapse(SortBlocks(found), 1, <<>>), <<Len(self.a), Len(self.b), 0>>)

get_matching_blocks(self) ==
    FinishBlocks(self,
        MatchLoop(self, [stack   |-> <<(<<0, Len(self.a), 0, Len(self.b)>>)>>,
                         matches |-> <<>>]))

---------------------------------------------------------------------------
(* SequenceMatcher::get_opcodes                                            *)

OpCode(tag, i1, i2, j1, j2) == [tag |-> tag, i1 |-> i1, i2 |-> i2, j1 |-> j1, j2 |-> j2]

\* Faulty variant: the insert branch left out.
GapOpcode_NoInsert(i, j, ai, bj) ==
    IF i < ai /\ j < bj THEN <<OpCode("replace", i, ai, j, bj)>>
    ELSE IF i < ai THEN <<OpCode("delete", i, ai, j, j)>>
    ELSE <<>>

\* `for (ai, bj, size) in matches` from block p on, with cursors (i, j).
\* The op pushed for what lies between the cursors (i, j) and the block at
\* (ai, bj): replace, delete, insert, or nothing.
GapOpcode(i, j, ai, bj) ==
    IF i < ai /\ j < bj THEN <<OpCode("replace", i, ai, j, bj)>>
    ELSE IF i < ai THEN <<OpCode("delete", i, ai, j, j)>>
    ELSE IF j < bj THEN <<OpCode("insert", i, i, j, bj)>>
    ELSE <<>>

\* The op pushed for the block itself, `if size > 0`.
EqualOpcode(ai, bj, size) ==
    IF size > 0 THEN <<OpCode("equal", ai, ai + size, bj, bj + size)>> ELSE <<>>

RECURSIVE AssembleOpcodes(_, _, _, _, _)
AssembleOpcodes(blocks, p, i, j, opcodes) ==
    IF p > Len(blocks) THEN opcodes
    ELSE LET ai   == blocks[p][1]
             bj   == blocks[p][2]
             size == blocks[p][3]
         IN  AssembleOpcodes(blocks, p + 1, ai + size, bj + size,
                             opcodes \o GapOpcode(i, j, ai, bj) \o EqualOpcode(ai, bj, size))

get_opcodes(self) == AssembleOpcodes(get_matching_blocks(self), 1, 0, 0, <<>>)

---------------------------------------------------------------------------
(* SequenceMatcher::get_grouped_opcodes                                    *)

\* The loop of the n == 0 branch, from code p on.
RECURSIVE GroupNoContext(_, _, _, _)
GroupNoContext(codes, p, groups, group) ==
    IF p > Len(codes)
    THEN IF group # <<>> THEN Append(groups, group) ELSE groups
    ELSE LET code == codes[p] IN
         IF code.tag = "equal" /\ code.i2 > code.i1
         THEN IF group # <<>>
              THEN GroupNoContext(codes, p + 1, Append(groups, group), <<>>)
              ELSE GroupNoContext(codes, p + 1, groups, group)
         ELSE GroupNoContext(codes, p + 1, groups, Append(group, code))

\* What the final `if !group.is_empty() { groups.push(group) }` returns.
PushLastGroup(groups, group) ==
    IF group # <<>> THEN Append(groups, group) ELSE groups

\* The loop of the n > 0 branch, from code p on.
\* The n lines of a long equal op that close the group before it ...
TailContext(code, n) == OpCode("equal", code.i1, code.i1 + n, code.j1, code.j1 + n)

\* Faulty variant: the whole equal run kept as leading context.
LeadContext_FromStart(code, n) == OpCode("equal", code.i1, code.i2, code.j1, code.j2)

\* ... and the n lines of it that open the group after it.
LeadContext(code, n) == OpCode("equal", code.i2 - n, code.i2, code.j2 - n, code.j2)

RECURSIVE GroupWithContext(_, _, _, _, _)
GroupWithContext(codes, n, p, groups, group) ==
    IF p > Len(codes)
    THEN PushLastGroup(groups, group)
    ELSE LET code == codes[p] IN
         IF code.tag = "equal" /\ code.i2 - code.i1 > 2 * n
         THEN LET lead == LeadContext(code, n)
                  tail == TailContext(code, n)
              IN  IF group # <<>>
                  THEN GroupWithContext(codes, n, p + 1,
                                        Append(groups, Append(group, tail)), <<lead>>)
                  ELSE GroupWithContext(codes, n, p + 1, groups, <<lead>>)
         ELSE GroupWithContext(codes, n, p + 1, groups, Append(group, code))

\* The body of get_grouped_opcodes once get_opcodes has returned codes.
GroupOpcodes(codes, n) ==
    IF codes = <<>> THEN <<>>
    ELSE IF Len(codes) = 1 /\ codes[1].tag = "equal" THEN <<>>
    ELSE IF n = 0 THEN GroupNoContext(codes, 1, <<>>, <<>>)
    ELSE GroupWithContext(codes, n, 1, <<>>, <<>>)

get_grouped_opcodes(self, n) == GroupOpcodes(get_opcodes(self), n)

---------------------------------------------------------------------------
(* format_range_unified and unified_diff.  An output line is modelled as   *)
(* the tuple of the parts format! concatenates.                            *)

\* The text of a range: "beginning", "start,0" or "beginning,length",
\* as the tuple of the numbers printed.
format_range_unified(start, stop) ==
    LET beginning == start + 1
        length    == IF stop >= start THEN stop - start ELSE 0
    IN  IF length = 1 THEN <<beginning>>
        ELSE IF length = 0 THEN <<start, 0>>
        ELSE <<beginning, length>>

\* The body lines of one opcode.
OpcodeLines(aa, bb, opcode) ==
    LET minus == [q \in 1..(opcode.i2 - opcode.i1) |-> <<"-", At(aa, opcode.i1 + q - 1)>>]
        plus  == [q \in 1..(opcode.j2 - opcode.j1) |-> <<"+", At(bb, opcode.j1 + q - 1)>>]
    IN  CASE opcode.tag = "equal" ->
               [q \in 1..(opcode.i2 - opcode.i1) |-> <<" ", At(aa, opcode.i1 + q - 1)>>]
          [] opcode.tag = "delete"  -> minus
          [] opcode.tag = "replace" -> minus \o plus
          [] opcode.tag = "insert"  -> plus
          [] OTHER -> <<>>

RECURSIVE GroupLines(_, _, _, _)
GroupLines(aa, bb, group, p) ==
    IF p > Len(group) THEN <<>>
    ELSE OpcodeLines(aa, bb, group[p]) \o GroupLines(aa, bb, group, p + 1)

\* One hunk: the "@@ -r1 +r2 @@" header and the body.
HunkLines(aa, bb, group, lineterm) ==
    LET first == group[1]
        last  == group[Len(group)]
    IN  <<(<<"@@ -", format_range_unified(first.i1, last.i2),
             " +", format_range_unified(first.j1, last.j2), " @@", lineterm>>)>>
        \o GroupLines(aa, bb, group, 1)

RECURSIVE HunksLines(_, _, _, _, _)
HunksLines(aa, bb, groups, p, lineterm) ==
    IF p > Len(groups) THEN <<>>
    ELSE HunkLines(aa, bb, groups[p], lineterm)
         \o HunksLines(aa, bb, groups, p + 1, lineterm)

\* The "\t{date}" field of a header line, empty for an empty date.
DateField(filedate) == IF filedate = "" THEN "" ELSE "\t" \o filedate

\* The body of unified_diff once get_grouped_opcodes has returned groups.
EmitDiff(aa, bb, groups, fromfile, tofile, fromfiledate, tofiledate, lineterm) ==
    IF groups = <<>> THEN <<>>
    ELSE <<(<<"--- ", fromfile, DateField(fromfiledate), lineterm>>),
           (<<"+++ ", tofile, DateField(tofiledate), lineterm>>)>>
         \o HunksLines(aa, bb, groups, 1, lineterm)

unified_diff(aa, bb, fromfile, tofile, fromfiledate, tofiledate, n, lineterm) ==
    IF aa = bb THEN <<>>
    ELSE EmitDiff(aa, bb, get_grouped_opcodes(SequenceMatcher_new(aa, bb), n),
                  fromfile, tofile, fromfiledate, tofiledate, lineterm)

---------------------------------------------------------------------------
(* The inputs.                                                             *)

\* Every sequence of at most MaxLen lines.
ShortSeqs == SeqsUpTo(Lines, MaxLen)

\* Long inputs: a core of at most MaxCore lines with PopularMinLen padding
\* lines before it, after it, both or neither; chain_b prunes the padding
\* line from the index of a padded b.
LongSeqs ==
    {Pad(pre) \o core \o Pad(post) :
        core \in SeqsUpTo(Lines, MaxCore),
        pre  \in {0, PopularMinLen},
        post \in {0, PopularMinLen}}

\* The inputs whose every window find_longest_match is called on.
WindowInputs == SeqsUpTo(Lines, MaxWinLen) \X SeqsUpTo(Lines, MaxWinLen)

\* The inputs of the stepwise get_matching_blocks: two lines, so that the
\* sequences can be long enough for several rectangles to be pending.
WorkLines == {"x", "mid"}

WorkInputs == SeqsUpTo(WorkLines, MaxWorkLen) \X SeqsUpTo(WorkLines, MaxWorkLen)

NoRet == [op |-> "none", arg |-> 0, val |-> <<>>]

---------------------------------------------------------------------------
(* The calls: a matcher is built from the inputs, then one method of it is *)
(* called and returns (the methods take &self and change nothing, so each  *)
(* call is independent of the calls before it).                            *)

Init ==
    /\ \/ \E input \in ShortSeqs \X ShortSeqs : a = input[1] /\ b = input[2]
       \/ \E input \in LongSeqs \X LongSeqs : a = input[1] /\ b = input[2]
    /\ matcher = NoMatcher
    /\ pc = "new"
    /\ ret = NoRet
    /\ stack = <<>>
    /\ matches = <<>>

\* SequenceMatcher::new(a, b)
New ==
    /\ pc = "new"
    /\ matcher' = SequenceMatcher_new(a, b)
    /\ pc' = "ready"
    /\ UNCHANGED <<a, b, ret, stack, matches>>

GetMatchingBlocks ==
    /\ pc = "ready"
    /\ ret' = [op |-> "get_matching_blocks", arg |-> 0, val |-> get_matching_blocks(matcher)]
    /\ pc' = "returned"
    /\ UNCHANGED <<a, b, matcher, stack, matches>>

GetOpcodes ==
    /\ pc = "ready"
    /\ ret' = [op |-> "get_opcodes", arg |-> 0, val |-> get_opcodes(matcher)]
    /\ pc' = "returned"
    /\ UNCHANGED <<a, b, matcher, stack, matches>>

GetGroupedOpcodes ==
    /\ pc = "ready"
    /\ \E n \in 0..MaxCtx :
          ret' = [op |-> "get_grouped_opcodes", arg |-> n,
                  val |-> get_grouped_opcodes(matcher, n)]
    /\ pc' = "returned"
    /\ UNCHANGED <<a, b, matcher, stack, matches>>

\* unified_diff(a, b, "a", "b", "", "", n, "\n"), which builds its own matcher.
UnifiedDiff ==
    /\ pc = "new"
    /\ \E n \in 0..MaxCtx :
          ret' = [op |-> "unified_diff", arg |-> n,
                  val |-> unified_diff(a, b, "a", "b", "", "", n, "\n")]
    /\ pc' = "returned"
    /\ UNCHANGED <<a, b, matcher, stack, matches>>

Next == New \/ GetMatchingBlocks \/ GetOpcodes \/ GetGroupedOpcodes \/ UnifiedDiff

Spec == Init /\ [][Next]_vars

---------------------------------------------------------------------------
(* find_longest_match called on every window of short inputs.              *)

InitFLM ==
    /\ \E input \in WindowInputs : a = input[1] /\ b = input[2]
    /\ matcher = NoMatcher
    /\ pc = "new"
    /\ ret = NoRet
    /\ stack = <<>>
    /\ matches = <<>>

FindLongestMatch ==
    /\ pc = "ready"
    /\ \E alo \in 0..Len(a), ahi \in 0..Len(a), blo \in 0..Len(b), bhi \in 0..Len(b) :
          /\ alo <= ahi
          /\ blo <= bhi
          /\ ret' = [op |-> "find_longest_match", arg |-> <<alo, ahi, blo, bhi>>,
                     val |-> find_longest_match(matcher, alo, ahi, blo, bhi)]
    /\ pc' = "returned"
    /\ UNCHANGED <<a, b, matcher, stack, matches>>

NextFLM == New \/ FindLongestMatch

SpecFLM == InitFLM /\ [][NextFLM]_vars

---------------------------------------------------------------------------
(* get_matching_blocks step by step, the rectangle taken from the work     *)
(* list at each step being any of the pending ones (the code takes the     *)
(* last one; a queue would take the first).                                *)

RemoveAt(s, p) == SubSeq(s, 1, p - 1) \o SubSeq(s, p + 1, Len(s))

InitWork ==
    /\ \E input \in WorkInputs : a = input[1] /\ b = input[2]
    /\ matcher = NoMatcher
    /\ pc = "new"
    /\ ret = NoRet
    /\ stack = <<>>
    /\ matches = <<>>

\* `let mut stack = vec![(0, a.len(), 0, b.len())]`
StartBlocks ==
    /\ pc = "ready"
    /\ stack' = <<(<<0, Len(matcher.a), 0, Len(matcher.b)>>)>>
    /\ matches' = <<>>
    /\ pc' = "loop"
    /\ UNCHANGED <<a, b, matcher, ret>>

\* One iteration of the loop on the pending rectangle at position p.
LoopStep ==
    /\ pc = "loop"
    /\ \E p \in 1..Len(stack) :
          LET r == ProcessRect(matcher, stack[p], RemoveAt(stack, p), matches)
          IN  /\ stack' = r.stack
              /\ matches' = r.matches
    /\ UNCHANGED <<a, b, matcher, pc, ret>>

\* The loop has ended: sort, collapse, sentinel, return.
ReturnBlocks ==
    /\ pc = "loop"
    /\ stack = <<>>
    /\ ret' = [op |-> "get_matching_blocks", arg |-> 0, val |-> FinishBlocks(matcher, matches)]
    /\ pc' = "returned"
    /\ UNCHANGED <<a, b, matcher, stack, matches>>

NextWork == New \/ StartBlocks \/ LoopStep \/ ReturnBlocks

SpecWork == InitWork /\ [][NextWork]_vars

---------------------------------------------------------------------------
(* The properties.                                                         *)

\* The call op has returned.
Returned(op) == pc = "returned" /\ ret.op = op

OpLen(code) == code.i2 - code.i1

\* The padding line occurs in b and chain_b has pruned it from the index.
PadPruned ==
    /\ Len(matcher.b) >= PopularMinLen
    /\ PadLine \in Range(matcher.b)
    /\ PadLine \notin DOMAIN matcher.b2j

\* What applying codes (from op p on) to aa yields: the A-slice of an equal
\* op, the B-slice of an insert or replace op, nothing for a delete op.
RECURSIVE ApplyOpcodes(_, _, _, _)
ApplyOpcodes(aa, bb, codes, p) ==
    IF p > Len(codes) THEN <<>>
    ELSE (CASE codes[p].tag = "equal" -> SubSeq(aa, codes[p].i1 + 1, codes[p].i2)
            [] codes[p].tag \in {"insert", "replace"} ->
                   SubSeq(bb, codes[p].j1 + 1, codes[p].j2)
            [] OTHER -> <<>>)
         \o ApplyOpcodes(aa, bb, codes, p + 1)

\* C1 (reconstruction): applying the opcodes get_opcodes returns to A
\* yields exactly B, also when popular lines were pruned from the index.
C1_Reconstruction ==
    Returned("get_opcodes") => ApplyOpcodes(a, b, ret.val, 1) = b

C1_Witness ==
    /\ Returned("get_opcodes")
    /\ PadPruned
    /\ \E p \in 1..Len(ret.val) : ret.val[p].tag = "equal"
    /\ \E p \in 1..Len(ret.val) : ret.val[p].tag = "replace"

\* The opcodes chain: each op starts where the one before it ends.
Chained(codes) ==
    \A p \in 1..(Len(codes) - 1) :
        codes[p + 1].i1 = codes[p].i2 /\ codes[p + 1].j1 = codes[p].j2

\* The list codes starts at (0, 0) and ends at (m, n).
Spans(codes, m, n) ==
    /\ codes[1].i1 = 0 /\ codes[1].j1 = 0
    /\ Last(codes).i2 = m /\ Last(codes).j2 = n

\* C2 as stated (opcode coverage): for any A and B the list get_opcodes
\* returns starts with an op at (0, 0), ends with an op at (m, n), and
\* consecutive ops chain.
C2_Original ==
    Returned("get_opcodes") =>
        /\ ret.val # <<>>
        /\ Spans(ret.val, Len(a), Len(b))
        /\ Chained(ret.val)

\* C2 as amended: when A and B are not both empty the list starts with an
\* op at (0, 0), ends with an op at (m, n) and consecutive ops chain; when
\* both are empty the list is empty.
C2_Coverage ==
    Returned("get_opcodes") =>
        IF Len(a) = 0 /\ Len(b) = 0
        THEN ret.val = <<>>
        ELSE /\ ret.val # <<>>
             /\ Spans(ret.val, Len(a), Len(b))
             /\ Chained(ret.val)

C2_Witness ==
    /\ Returned("get_opcodes")
    /\ Len(ret.val) >= 3
    /\ \E p \in 1..Len(ret.val) : ret.val[p].tag = "insert"

\* C3 (context bound): with context n > 0, in every group returned by
\* get_grouped_opcodes(n) a first op that is equal has at most n lines, a
\* last op that is equal has at most n lines, and no equal op strictly
\* inside the group has more than 2n lines.
C3_ContextBound ==
    (Returned("get_grouped_opcodes") /\ ret.arg > 0) =>
        \A g \in 1..Len(ret.val) :
            /\ ret.val[g][1].tag = "equal" => OpLen(ret.val[g][1]) <= ret.arg
            /\ Last(ret.val[g]).tag = "equal" => OpLen(Last(ret.val[g])) <= ret.arg
            /\ \A p \in 2..(Len(ret.val[g]) - 1) :
                  ret.val[g][p].tag = "equal" => OpLen(ret.val[g][p]) <= 2 * ret.arg

\* C4 (group non-triviality): every group returned by get_grouped_opcodes(n),
\* n >= 0, holds at least one op that is not equal.
C4_GroupNonTrivial ==
    Returned("get_grouped_opcodes") =>
        \A g \in 1..Len(ret.val) :
            \E p \in 1..Len(ret.val[g]) : ret.val[g][p].tag # "equal"

\* C5 (identity): when A = B, of any length and whatever was pruned from
\* the index, get_grouped_opcodes(n) returns the empty list for every n and
\* unified_diff returns no line.
C5_Identity ==
    a = b =>
        /\ Returned("get_grouped_opcodes") => ret.val = <<>>
        /\ Returned("unified_diff") => ret.val = <<>>

C5_Witness ==
    /\ Returned("get_grouped_opcodes")
    /\ a = b
    /\ ret.arg > 0
    /\ PadPruned
    /\ DOMAIN matcher.b2j # {}

\* The case of C6 at position p: A and B have the same length >= 200 and
\* differ at p alone, every other line is one line that was pruned from the
\* index, at least n of them lie on each side of p, and
\* get_grouped_opcodes(n) has returned.
SingleChangeAt(p) ==
    /\ Returned("get_grouped_opcodes")
    /\ Len(a) = Len(b)
    /\ Len(a) >= PopularMinLen
    /\ At(a, p) # At(b, p)
    /\ \E x \in Lines :
          /\ x \notin DOMAIN matcher.b2j
          /\ \A q \in 0..(Len(a) - 1) : q # p => (At(a, q) = x /\ At(b, q) = x)
    /\ p >= ret.arg
    /\ Len(a) - 1 - p >= ret.arg

\* An equal op of n lines, as a list: no op when n = 0.
ContextOp(from, n) ==
    IF n = 0 THEN <<>> ELSE <<OpCode("equal", from, from + n, from, from + n)>>

C7_Original ==
    Returned("get_opcodes") =>
        /\ Len(a) = 0 => ret.val = <<OpCode("insert", 0, 0, 0, Len(b))>>
        /\ Len(b) = 0 => ret.val = <<OpCode("delete", 0, Len(a), 0, 0)>>

\* C7 as amended: if A is empty and B is not, get_opcodes returns exactly
\* the op insert(0, 0, 0, |B|); if B is empty and A is not, exactly the op
\* delete(0, |A|, 0, 0); if both are empty, the empty list.
C7_Emptiness ==
    Returned("get_opcodes") =>
        /\ (Len(a) = 0 /\ Len(b) > 0) => ret.val = <<OpCode("insert", 0, 0, 0, Len(b))>>
        /\ (Len(b) = 0 /\ Len(a) > 0) => ret.val = <<OpCode("delete", 0, Len(a), 0, 0)>>
        /\ (Len(a) = 0 /\ Len(b) = 0) => ret.val = <<>>

C7_Witness ==
    /\ Returned("get_opcodes")
    /\ Len(a) = 0
    /\ Len(b) >= PopularMinLen

\* The form of a block list but for mergeability: ordered by (i, j) without
\* decrease, ended by the sentinel (m, n, 0), no other entry of length 0.
BlockListForm(blocks, m, n) ==
    /\ blocks # <<>>
    /\ Last(blocks) = <<m, n, 0>>
    /\ \A p \in 1..(Len(blocks) - 1) : blocks[p][3] > 0
    /\ \A p \in 1..(Len(blocks) - 1) :
          \/ blocks[p][1] < blocks[p + 1][1]
          \/ blocks[p][1] = blocks[p + 1][1] /\ blocks[p][2] <= blocks[p + 1][2]

\* Entry p of blocks is continued by entry p + 1.
Mergeable(blocks, p) ==
    /\ blocks[p][1] + blocks[p][3] = blocks[p + 1][1]
    /\ blocks[p][2] + blocks[p][3] = blocks[p + 1][2]

\* C8 as stated (matching-block list form): the list get_matching_blocks
\* returns is non-decreasing in (i, j), ends with the sentinel (m, n, 0),
\* the only entry with k = 0, and no two consecutive entries of the list
\* are mergeable.
C8_Original ==
    Returned("get_matching_blocks") =>
        /\ BlockListForm(ret.val, Len(a), Len(b))
        /\ \A p \in 1..(Len(ret.val) - 1) : ~Mergeable(ret.val, p)

\* C8 as amended: the same, but no two consecutive entries before the
\* sentinel are mergeable (the last block may end where the sentinel lies).
C8_BlockListForm ==
    Returned("get_matching_blocks") =>
        /\ BlockListForm(ret.val, Len(a), Len(b))
        /\ \A p \in 1..(Len(ret.val) - 2) : ~Mergeable(ret.val, p)

C8_Witness ==
    /\ Returned("get_matching_blocks")
    /\ Len(ret.val) >= 3
    /\ Mergeable(ret.val, Len(ret.val) - 1)

\* A[i..i+k) = B[j..j+k) lies inside the window w = (alo, ahi, blo, bhi).
CommonRun(i, j, k, w) ==
    /\ w[1] <= i /\ i + k <= w[2]
    /\ w[3] <= j /\ j + k <= w[4]
    /\ \A t \in 0..(k - 1) : At(a, i + t) = At(b, j + t)

\* C9 (longest match, earliest on ties): when nothing is pruned from the
\* index (|B| < 200), find_longest_match on a window returns a common run
\* (i, j, k) inside the window such that no common run inside the window is
\* longer, and among those of length k it has the least i and, for that i,
\* the least j; with no common element or an empty window it returns
\* (alo, blo, 0).
C9_LongestEarliest ==
    (Returned("find_longest_match") /\ Len(b) < PopularMinLen) =>
        LET w == ret.arg
            i == ret.val[1]
            j == ret.val[2]
            k == ret.val[3]
        IN  /\ CommonRun(i, j, k, w)
            /\ \A i2 \in w[1]..w[2], j2 \in w[3]..w[4] : ~CommonRun(i2, j2, k + 1, w)
            /\ k > 0 =>
                  \A i2 \in w[1]..w[2], j2 \in w[3]..w[4] :
                      CommonRun(i2, j2, k, w) => (i < i2 \/ (i = i2 /\ j <= j2))
            /\ k = 0 => (i = w[1] /\ j = w[3])

C9_Witness ==
    /\ Returned("find_longest_match")
    /\ Len(b) < PopularMinLen
    /\ ret.val[3] >= 2
    /\ ret.arg # <<0, Len(a), 0, Len(b)>>
    /\ \E i2 \in ret.arg[1]..ret.arg[2], j2 \in ret.arg[3]..ret.arg[4] :
          /\ <<i2, j2>> # <<ret.val[1], ret.val[2]>>
          /\ CommonRun(i2, j2, ret.val[3], ret.arg)

\* What is left to do: the heights and widths of the pending rectangles.
RECURSIVE Pending(_)
Pending(stk) ==
    IF stk = <<>> THEN 0
    ELSE (Last(stk)[2] - Last(stk)[1]) + (Last(stk)[4] - Last(stk)[3]) + 1
         + Pending(SubSeq(stk, 1, Len(stk) - 1))

\* C10 (work-list order independence): whichever pending rectangle each
\* step of get_matching_blocks takes, every iteration leaves strictly less
\* to do, so the loop terminates; it returns with the work list empty, and
\* the list returned is the one the loop as coded returns.
C10_OrderIndependence ==
    /\ [](Returned("get_matching_blocks") =>
             (stack = <<>> /\ ret.val = get_matching_blocks(matcher)))
    /\ [][(pc = "loop" /\ pc' = "loop") => Pending(stack') < Pending(stack)]_vars

\* Several blocks were found, in an order the loop as coded does not find
\* them in.
C10_Witness ==
    /\ Returned("get_matching_blocks")
    /\ Len(matches) >= 3
    /\ matches # MatchLoop(matcher, [stack   |-> <<(<<0, Len(a), 0, Len(b)>>)>>,
                                     matches |-> <<>>])

===========================================================================
